---- MODULE Spec2Model ----
(***************************************************************************)
(* Model of the browser-side session and live-data layer of the web        *)
(* console:                                                                *)
(*   - the Login page (class Login, src/unnamed/part_000), which probes    *)
(*     the auth mode, collects credentials, submits them and redirects;    *)
(*   - the Status and Preferences context providers                        *)
(*     (src/src/components/common/context.tsx), each a WithAPIData         *)
(*     resource whose result is projected into a context value.            *)
(* Spec is the login page with the process-wide api.loggedIn flag;         *)
(* ProviderSpec is the two providers.                                      *)
(***************************************************************************)
EXTENDS Naturals, Sequences, FiniteSets, TLC

\* ------------------------------------------------------------------ bounds

\* Submissions of the login form modelled over a run.
MaxSubmits == 3
\* Times the Login page is mounted over a run (each mount is a new instance).
MaxMounts == 2

\* ------------------------------------------------------------- login: data

\* Values a keystroke can leave in the password input.
Passwords == {"", "secret", "hunter2"}
\* Values a keystroke can leave in the username input.
Usernames == {"", "admin"}
\* props.location.state is undefined when the user came to /login directly.
NoState == "<none>"
\* from.pathname of a protected page the user was bounced from.
FromPaths == {"/settings/networking"}
\* What api.checkAuthMode() can report as auth.mode.
AuthModes == {"local", "ldap"}

\* sha("sha256").update(s).digest("hex") for the strings the model hashes:
\* the password drafts and the hex digests of the password drafts.
Sha256Hex(s) ==
  CASE s = "" ->
         "e3b0c44298fc1c149afbf4c8996fb92427ae41e4649b934ca495991b7852b855"
    [] s = "secret" ->
         "2bb80d537b1da3e38bd30361aa855686bde0eacd7162fef6a25fe97bf527a25b"
    [] s = "hunter2" ->
         "f52fbd32b2b3b86ff88ef6c490628285f482af15ddcb29541f94bcf526a3f6c7"
    [] s = "e3b0c44298fc1c149afbf4c8996fb92427ae41e4649b934ca495991b7852b855" ->
         "cd372fb85148700fa88095e3492d3f9f5beb43e555e5ff26d95f5a6adc36f8e6"
    [] s = "2bb80d537b1da3e38bd30361aa855686bde0eacd7162fef6a25fe97bf527a25b" ->
         "3d91b58504a6cc3a159005ee7b16c7ae503ca6ac2a6a3c893837083c236b864a"
    [] s = "f52fbd32b2b3b86ff88ef6c490628285f482af15ddcb29541f94bcf526a3f6c7" ->
         "b6ff43379b25b8ee6a4fcb150c0924842cf00965925494c59fe1655304592d22"

VARIABLES
  loggedIn,        \* api.loggedIn, the process-wide session flag
  inst,            \* number of Login instances mounted so far; the current one
  mounted,         \* whether the current Login instance is mounted
  location,        \* per instance: props.location.state.from.pathname, or NoState
  username,        \* this.state.username of the current instance
  password,        \* this.state.password
  error,           \* this.state.error
  cookiesEnabled,  \* this.state.cookiesEnabled
  ldapAuth,        \* this.state.ldapAuth
  probes,          \* instances whose api.checkAuthMode() promise is pending
  probeReport,     \* per instance: how its api.checkAuthMode() promise settled
  requests,        \* pending api.authenticate / api.authenticateLdap promises
  submits,         \* number of submissions so far
  redirects        \* navigations issued: history.push and <Redirect>

loginVars == <<loggedIn, inst, mounted, location, username, password, error,
               cookiesEnabled, ldapAuth, probes, probeReport, requests, submits,
               redirects>>

\* -------------------------------------------------------- providers: data

\* Fetches one resource issues over a run.
MaxFetches == 3

Providers == {"status", "preferences"}

\* What api.getStatus() can resolve with.
StatusData == {[status |-> "enabled"], [status |-> "disabled"]}
\* What api.getPreferences() can resolve with.
PreferencesData == {[layout |-> "boxed", language |-> "en"],
                    [layout |-> "traditional", language |-> "de"]}
ApiData(p) == IF p = "status" THEN StatusData ELSE PreferencesData

\* The resource holds no data.
NoData == [nodata |-> TRUE]

VARIABLES
  phase,        \* per provider: "new" (not mounted), "live", "down" (torn down)
  result,       \* per provider: the resource's state, [tag, value]
  generation,   \* per provider: the generation token
  timer,        \* per provider: whether a poll timer is pending
  fetches,      \* per provider: tokens of the fetches not yet settled
  lastApplied,  \* per provider: the value most recently applied, or NoData
  lastCall      \* provider whose published refresh the last step invoked, or "none"

providerVars == <<phase, result, generation, timer, fetches, lastApplied, lastCall>>

Instances == 1..MaxMounts

\* Login.state as constructed.
LoginStateInit ==
  /\ username = ""
  /\ password = ""
  /\ error = FALSE
  /\ cookiesEnabled = FALSE
  /\ ldapAuth = FALSE

\* api.loggedIn when the process starts.
ApiInit == loggedIn = FALSE

LoginInit ==
  /\ ApiInit
  /\ LoginStateInit
  /\ inst = 0
  /\ mounted = FALSE
  /\ location = [i \in Instances |-> NoState]
  /\ probes = {}
  /\ probeReport = [i \in Instances |-> "none"]
  /\ requests = {}
  /\ submits = 0
  /\ redirects = <<>>

\* setState of instance i takes effect only while that instance is mounted.
SetStateApplies(i) == mounted /\ i = inst

\* As HashedPassword, hashing once.
HashedPasswordOnce(pw) == Sha256Hex(pw)

\* The double hash of the Local mode.
HashedPassword(pw) == Sha256Hex(Sha256Hex(pw))

\* The api call authenticate() makes for the drafts and the mode it reads.
AuthCall(ldap, user, pw) ==
  IF ldap
    THEN [call |-> "authenticateLdap", args |-> <<user, pw>>]
    ELSE [call |-> "authenticate", args |-> <<HashedPassword(pw)>>]

\* The path the success continuation pushes.
RedirectTarget(loc) == IF loc = NoState THEN "/" ELSE loc

\* componentWillMount issues the probe.
ProbesAfterMount(i) == probes \cup {i}

\* A new Login instance is constructed, componentWillMount runs, then render.
\* render returns <Redirect to="/"> when api.loggedIn, which navigates away.
Mount(cookie, loc) ==
  /\ ~mounted
  /\ inst < MaxMounts
  /\ inst' = inst + 1
  /\ location' = [location EXCEPT ![inst + 1] = loc]
  /\ username' = ""
  /\ password' = ""
  /\ error' = FALSE
  /\ ldapAuth' = FALSE
  /\ cookiesEnabled' = cookie
  /\ probes' = ProbesAfterMount(inst + 1)
  /\ probeReport' = [probeReport EXCEPT ![inst + 1] =
                       IF inst + 1 \in probes' THEN "pending" ELSE "none"]
  /\ IF loggedIn
       THEN /\ mounted' = FALSE
            /\ redirects' = Append(redirects,
                 [inst |-> inst + 1, to |-> "/", via |-> "Redirect"])
       ELSE /\ mounted' = TRUE
            /\ redirects' = redirects
  /\ UNCHANGED <<loggedIn, requests, submits>>
  /\ UNCHANGED providerVars

\* As LdapAuthAfterProbe, comparing with a mode name the API never reports.
LdapAuthAfterProbeWrongName(i, mode) ==
  IF SetStateApplies(i) THEN (mode = "LDAP") ELSE ldapAuth

\* What the then-continuation of the probe of instance i leaves in
\* this.state.ldapAuth when the probe reports mode.
LdapAuthAfterProbe(i, mode) ==
  IF SetStateApplies(i) THEN (mode = "ldap") ELSE ldapAuth

\* api.checkAuthMode() of instance i resolves with auth.mode = mode.
ProbeResolve(i, mode) ==
  /\ i \in probes
  /\ probes' = probes \ {i}
  /\ probeReport' = [probeReport EXCEPT ![i] = mode]
  /\ ldapAuth' = LdapAuthAfterProbe(i, mode)
  /\ UNCHANGED <<loggedIn, inst, mounted, location, username, password, error,
                 cookiesEnabled, requests, submits, redirects>>
  /\ UNCHANGED providerVars

\* As ProbeReject, with a catch that reports the failure as a login error.
ProbeRejectShowsError(i) ==
  /\ i \in probes
  /\ probes' = probes \ {i}
  /\ probeReport' = [probeReport EXCEPT ![i] = "failed"]
  /\ error' = IF SetStateApplies(i) THEN TRUE ELSE error
  /\ UNCHANGED <<loggedIn, inst, mounted, location, username, password,
                 cookiesEnabled, ldapAuth, requests, submits, redirects>>
  /\ UNCHANGED providerVars

\* api.checkAuthMode() of instance i rejects: the promise has no catch.
ProbeReject(i) ==
  /\ i \in probes
  /\ probes' = probes \ {i}
  /\ probeReport' = [probeReport EXCEPT ![i] = "failed"]
  /\ UNCHANGED <<loggedIn, inst, mounted, location, username, password, error,
                 cookiesEnabled, ldapAuth, requests, submits, redirects>>
  /\ UNCHANGED providerVars

\* As HandlePasswordChange, also dismissing the error on a keystroke.
HandlePasswordChangeClearsError(v) ==
  /\ mounted
  /\ password' = v
  /\ error' = FALSE
  /\ UNCHANGED <<loggedIn, inst, mounted, location, username,
                 cookiesEnabled, ldapAuth, probes, requests, submits, redirects>>
  /\ UNCHANGED probeReport
  /\ UNCHANGED providerVars

\* The password input changes.
HandlePasswordChange(v) ==
  /\ mounted
  /\ password' = v
  /\ UNCHANGED <<loggedIn, inst, mounted, location, username, error,
                 cookiesEnabled, ldapAuth, probes, requests, submits, redirects>>
  /\ UNCHANGED probeReport
  /\ UNCHANGED providerVars

\* The username input is rendered only when ldapAuth.
HandleUsernameChange(v) ==
  /\ mounted
  /\ ldapAuth
  /\ username' = v
  /\ UNCHANGED <<loggedIn, inst, mounted, location, password, error,
                 cookiesEnabled, ldapAuth, probes, requests, submits, redirects>>
  /\ UNCHANGED probeReport
  /\ UNCHANGED providerVars

\* The request authenticate() issues from the current state.
NewRequest ==
  [id |-> submits + 1, inst |-> inst] @@ AuthCall(ldapAuth, username, password)

\* Whether the form accepts a submission: the form's onSubmit is authenticate,
\* unconditionally, for as long as the form is rendered.
CanSubmit == mounted

\* As Authenticate, clearing the password only.
AuthenticateKeepsError ==
  /\ CanSubmit
  /\ submits < MaxSubmits
  /\ submits' = submits + 1
  /\ requests' = requests \cup {NewRequest}
  /\ password' = ""
  /\ UNCHANGED <<loggedIn, inst, mounted, location, username, cookiesEnabled,
                 ldapAuth, probes, redirects, error>>
  /\ UNCHANGED probeReport
  /\ UNCHANGED providerVars

\* Form submission: authenticate().
Authenticate ==
  /\ CanSubmit
  /\ submits < MaxSubmits
  /\ submits' = submits + 1
  /\ requests' = requests \cup {NewRequest}
  /\ password' = ""
  /\ error' = FALSE
  /\ UNCHANGED <<loggedIn, inst, mounted, location, username, cookiesEnabled,
                 ldapAuth, probes, redirects>>
  /\ UNCHANGED probeReport
  /\ UNCHANGED providerVars

\* The redirect the success continuation of request r issues.
PushOf(r) ==
  [inst |-> r.inst, to |-> RedirectTarget(location[r.inst]), via |-> "push"]

\* As ErrorAfterReject, with the catch handler leaving the flag alone.
ErrorAfterRejectUnset(r) == error

\* What the rejection handler of request r leaves in this.state.error.
ErrorAfterReject(r) == IF SetStateApplies(r.inst) THEN TRUE ELSE error

\* As LoggedInAfterReject, with the catch handler ending the session.
LoggedInAfterRejectReset == FALSE

\* What a rejection leaves in api.loggedIn.
LoggedInAfterReject == loggedIn

\* The promise of request r resolves: the then-continuation runs. The push
\* leaves the login route, so the mounted Login instance is unmounted.
AuthResolve(r) ==
  /\ r \in requests
  /\ requests' = requests \ {r}
  /\ loggedIn' = TRUE
  /\ redirects' = Append(redirects, PushOf(r))
  /\ mounted' = FALSE
  /\ UNCHANGED <<inst, location, username, password, error, cookiesEnabled,
                 ldapAuth, probes, submits>>
  /\ UNCHANGED probeReport
  /\ UNCHANGED providerVars

\* The promise of request r rejects: the catch-continuation runs.
AuthReject(r) ==
  /\ r \in requests
  /\ requests' = requests \ {r}
  /\ error' = ErrorAfterReject(r)
  /\ loggedIn' = LoggedInAfterReject
  /\ UNCHANGED <<inst, mounted, location, username, password, cookiesEnabled,
                 ldapAuth, probes, submits, redirects>>
  /\ UNCHANGED probeReport
  /\ UNCHANGED providerVars

LoginNext ==
  \/ \E cookie \in BOOLEAN, loc \in FromPaths \cup {NoState} : Mount(cookie, loc)
  \/ \E i \in probes, mode \in AuthModes : ProbeResolve(i, mode)
  \/ \E i \in probes : ProbeReject(i)
  \/ \E v \in Passwords : HandlePasswordChange(v)
  \/ \E v \in Usernames : HandleUsernameChange(v)
  \/ Authenticate
  \/ \E r \in requests : AuthResolve(r)
  \/ \E r \in requests : AuthReject(r)

\* ----------------------------------------------------- providers: engine

\* As Polls, with no provider given repeatOptions.
PollsNone(p) == FALSE

\* repeatOptions of the provider's WithAPIData: only Status polls.
Polls(p) == p = "status"

\* The context default of each provider; its refresh is () => {}.
initialStatus == [status |-> "unknown", refresh |-> "noop"]
initialPreferences ==
  [settings |-> [layout |-> "boxed", language |-> "en"], refresh |-> "noop"]

\* As StatusValue, with renderOk publishing the context default.
StatusValueDefaultOnly(res) ==
  CASE res.tag = "Initial" -> initialStatus
    [] res.tag = "Ok" -> [status |-> "unknown", refresh |-> "loadData"]
    [] res.tag = "Err" -> [status |-> "unknown", refresh |-> "loadData"]

\* The context value StatusProvider publishes for resource state res:
\* renderInitial, renderOk, renderErr.
StatusValue(res) ==
  CASE res.tag = "Initial" -> initialStatus
    [] res.tag = "Ok" -> [status |-> res.value.status, refresh |-> "loadData"]
    [] res.tag = "Err" -> [status |-> "unknown", refresh |-> "loadData"]

\* The context value PreferencesProvider publishes for resource state res.
PreferencesValue(res) ==
  CASE res.tag = "Initial" -> initialPreferences
    [] res.tag = "Ok" -> [settings |-> res.value, refresh |-> "loadData"]
    [] res.tag = "Err" ->
         [settings |-> [layout |-> "boxed", language |-> "en"],
          refresh |-> "loadData"]

\* The refresh callback a consumer of provider p finds in the context.
PublishedRefresh(p) ==
  IF p = "status" THEN StatusValue(result[p]).refresh
                  ELSE PreferencesValue(result[p]).refresh

ProviderInit ==
  /\ phase = [p \in Providers |-> "new"]
  /\ result = [p \in Providers |-> [tag |-> "Initial", value |-> NoData]]
  /\ generation = [p \in Providers |-> 0]
  /\ timer = [p \in Providers |-> FALSE]
  /\ fetches = [p \in Providers |-> {}]
  /\ lastApplied = [p \in Providers |-> NoData]
  /\ lastCall = "none"

\* As IsCurrent, without the token comparison.
IsCurrentAnyToken(p, g) == phase[p] = "live"

\* Whether the result of the fetch with token g is applied when it settles.
IsCurrent(p, g) == phase[p] = "live" /\ g = generation[p]

\* As IssueFetch, polling at a fixed rate: the timer is set at issue.
IssueFetchFixedRate(p) ==
  /\ generation[p] < MaxFetches
  /\ generation' = [generation EXCEPT ![p] = @ + 1]
  /\ fetches' = [fetches EXCEPT ![p] = @ \cup {generation[p] + 1}]
  /\ timer' = [timer EXCEPT ![p] = Polls(p)]

\* As IssueFetch, leaving a pending poll timer in place.
IssueFetchKeepsTimer(p) ==
  /\ generation[p] < MaxFetches
  /\ generation' = [generation EXCEPT ![p] = @ + 1]
  /\ fetches' = [fetches EXCEPT ![p] = @ \cup {generation[p] + 1}]
  /\ timer' = timer

\* A fetch is issued: the token advances, a pending timer is cancelled.
IssueFetch(p) ==
  /\ generation[p] < MaxFetches
  /\ generation' = [generation EXCEPT ![p] = @ + 1]
  /\ fetches' = [fetches EXCEPT ![p] = @ \cup {generation[p] + 1}]
  /\ timer' = [timer EXCEPT ![p] = FALSE]

\* Whether a timer is set when the current fetch of p settles.
TimerAfterSettle(p) == Polls(p)

\* The provider mounts: the resource is created and fetches at once.
Create(p) ==
  /\ phase[p] = "new"
  /\ phase' = [phase EXCEPT ![p] = "live"]
  /\ IssueFetch(p)
  /\ lastCall' = "none"
  /\ UNCHANGED <<result, lastApplied>>
  /\ UNCHANGED loginVars

\* The fetch with token g resolves with data v.
FetchResolve(p, g, v) ==
  /\ g \in fetches[p]
  /\ fetches' = [fetches EXCEPT ![p] = @ \ {g}]
  /\ IF IsCurrent(p, g)
       THEN /\ result' = [result EXCEPT ![p] = [tag |-> "Ok", value |-> v]]
            /\ lastApplied' = [lastApplied EXCEPT ![p] = v]
            /\ timer' = [timer EXCEPT ![p] = TimerAfterSettle(p)]
       ELSE UNCHANGED <<result, lastApplied, timer>>
  /\ lastCall' = "none"
  /\ UNCHANGED <<phase, generation>>
  /\ UNCHANGED loginVars

\* The fetch with token g rejects.
FetchReject(p, g) ==
  /\ g \in fetches[p]
  /\ fetches' = [fetches EXCEPT ![p] = @ \ {g}]
  /\ IF IsCurrent(p, g)
       THEN /\ result' = [result EXCEPT ![p] = [tag |-> "Err", value |-> NoData]]
            /\ timer' = [timer EXCEPT ![p] = TimerAfterSettle(p)]
       ELSE UNCHANGED <<result, timer>>
  /\ lastCall' = "none"
  /\ UNCHANGED <<phase, generation, lastApplied>>
  /\ UNCHANGED loginVars

\* The poll timer fires.
PollTick(p) ==
  /\ phase[p] = "live"
  /\ timer[p]
  /\ IssueFetch(p)
  /\ lastCall' = "none"
  /\ UNCHANGED <<phase, result, lastApplied>>
  /\ UNCHANGED loginVars

\* A consumer invokes the refresh callback it reads from the context of p.
CallRefresh(p) ==
  /\ phase[p] = "live"
  /\ lastCall' = p
  /\ IF PublishedRefresh(p) = "loadData"
       THEN IssueFetch(p)
       ELSE UNCHANGED <<generation, fetches, timer>>
  /\ UNCHANGED <<phase, result, lastApplied>>
  /\ UNCHANGED loginVars

\* As Teardown, leaving a pending poll timer in place.
TeardownKeepsTimer(p) ==
  /\ phase[p] = "live"
  /\ phase' = [phase EXCEPT ![p] = "down"]
  /\ generation' = [generation EXCEPT ![p] = @ + 1]
  /\ lastCall' = "none"
  /\ UNCHANGED <<result, fetches, lastApplied, timer>>
  /\ UNCHANGED loginVars

\* The provider unmounts.
Teardown(p) ==
  /\ phase[p] = "live"
  /\ phase' = [phase EXCEPT ![p] = "down"]
  /\ generation' = [generation EXCEPT ![p] = @ + 1]
  /\ timer' = [timer EXCEPT ![p] = FALSE]
  /\ lastCall' = "none"
  /\ UNCHANGED <<result, fetches, lastApplied>>
  /\ UNCHANGED loginVars

ProviderNext ==
  \/ \E p \in Providers : Create(p)
  \/ \E p \in Providers : \E g \in fetches[p] : \E v \in ApiData(p) :
       FetchResolve(p, g, v)
  \/ \E p \in Providers : \E g \in fetches[p] : FetchReject(p, g)
  \/ \E p \in Providers : PollTick(p)
  \/ \E p \in Providers : CallRefresh(p)
  \/ \E p \in Providers : Teardown(p)

\* ---------------------------------------------------------- specifications

vars == <<loginVars, providerVars>>

Init == LoginInit /\ ProviderInit

\* The login page.
Next == LoginNext

Spec == Init /\ [][Next]_vars

\* The Status and Preferences providers.
ProviderSpec == Init /\ [][ProviderNext]_vars

\* The k-th submitted request settles, one way or the other.
Settle(k) ==
  \E r \in requests : r.id = k /\ (AuthResolve(r) \/ AuthReject(r))

\* The login page, with every authentication request settling in the end.
FairSpec == Spec /\ \A k \in 1..MaxSubmits : WF_vars(Settle(k))

\* The providers, with a pending poll timer of Status firing in the end:
\* a timer set with setTimeout is run by the event loop.
ProviderFairSpec == ProviderSpec /\ WF_vars(PollTick("status"))

\* ------------------------------------------------------------ login claims

\* The requests of instance i that have not settled.
InFlight(i) == {r \in requests : r.inst = i}

\* The positions of redirects issued on behalf of instance i.
RedirectsOf(i) == {k \in DOMAIN redirects : redirects[k].inst = i}

\* A step in which a request settles by rejection.
RejectStep(r) ==
  /\ r \in requests
  /\ r \notin requests'
  /\ redirects' = redirects

\* A step in which a request settles by resolution.
ResolveStep(r) ==
  /\ r \in requests
  /\ r \notin requests'
  /\ redirects' = Append(redirects, PushOf(r))

\* C1: every submission sends what the auth mode held at that moment says:
\* in Local mode one call authenticate(hex(SHA256(hex(SHA256(password))))) of
\* the password draft, never the raw draft; in LDAP mode one call
\* authenticateLdap(username draft, password draft), unhashed.
C1_PayloadByMode ==
  [][\A r \in requests' \ requests :
       /\ ~ldapAuth =>
            /\ r.call = "authenticate"
            /\ r.args = <<Sha256Hex(Sha256Hex(password))>>
            /\ r.args[1] # password
            /\ password = "secret" =>
                 r.args[1] =
                   "3d91b58504a6cc3a159005ee7b16c7ae503ca6ac2a6a3c893837083c236b864a"
       /\ ldapAuth =>
            /\ r.call = "authenticateLdap"
            /\ r.args = <<username, password>>]_vars

\* C1 witness: a Local submission of "secret" and an LDAP submission of
\* admin/hunter2 have both been made.
C1_Witness ==
  /\ \E r \in requests :
       /\ r.call = "authenticate"
       /\ r.args =
            <<"3d91b58504a6cc3a159005ee7b16c7ae503ca6ac2a6a3c893837083c236b864a">>
  /\ \E r \in requests :
       /\ r.call = "authenticateLdap"
       /\ r.args = <<"admin", "hunter2">>

\* C2: once a request of a Login instance has resolved, api.loggedIn is true
\* and that instance has issued exactly one redirect over its whole run, to
\* the recorded path if there is one and to "/" otherwise.
C2_ExactlyOneRedirect ==
  \A i \in Instances :
    (\E k \in RedirectsOf(i) : redirects[k].via = "push") =>
      /\ loggedIn
      /\ Cardinality(RedirectsOf(i)) = 1
      /\ \A k \in RedirectsOf(i) : redirects[k].to = RedirectTarget(location[i])

\* C3: at most one authentication request of a Login instance is in flight.
C3_AtMostOneInFlight ==
  \A i \in Instances : Cardinality(InFlight(i)) <= 1

\* C4 as stated: a rejection leaves error = true, the password draft empty
\* and the form open to a further submission.
C4_RejectLeavesEmptyPassword ==
  [][\A r \in requests :
       RejectStep(r) => error' /\ password' = "" /\ CanSubmit']_vars

\* C4 as amended: a rejection never touches the password draft; if the
\* instance of the request is still mounted it sets error and the form still
\* accepts a submission, and otherwise it changes nothing of the page state.
C4_RejectSetsErrorOnly ==
  [][\A r \in requests :
       RejectStep(r) =>
         /\ password' = password
         /\ username' = username
         /\ SetStateApplies(r.inst) => error' /\ CanSubmit'
         /\ ~SetStateApplies(r.inst) => error' = error]_vars

\* C4 witness: the only submission was rejected and left the error shown
\* beside a draft typed while it was in flight.
C4_Witness ==
  /\ mounted
  /\ error
  /\ password = "secret"
  /\ submits = 1
  /\ requests = {}

\* C5: a Login instance that mounts while api.loggedIn is already true
\* redirects and makes no network call: no probe, no authentication request.
C5_NoNetworkWhenLoggedIn ==
  \A k \in DOMAIN redirects :
    redirects[k].via = "Redirect" =>
      /\ redirects[k].inst \notin probes
      /\ InFlight(redirects[k].inst) = {}

DefaultStatus == "unknown"
DefaultSettings == [layout |-> "boxed", language |-> "en"]

\* C7: for both providers the published value is the default while the
\* resource is Initial or Err, and the most recently applied resolved value
\* while it is Ok.
C7_PublishedValue ==
  /\ result["status"].tag \in {"Initial", "Err"} =>
       StatusValue(result["status"]).status = DefaultStatus
  /\ result["status"].tag = "Ok" =>
       /\ lastApplied["status"] \in StatusData
       /\ StatusValue(result["status"]).status = lastApplied["status"].status
  /\ result["preferences"].tag \in {"Initial", "Err"} =>
       PreferencesValue(result["preferences"]).settings = DefaultSettings
  /\ result["preferences"].tag = "Ok" =>
       /\ lastApplied["preferences"] \in PreferencesData
       /\ PreferencesValue(result["preferences"]).settings =
            lastApplied["preferences"]

\* C7 witness: Status publishes a fetched value while Preferences, having
\* held a fetched non-default value, has failed and is back to the default.
C7_Witness ==
  /\ result["status"].tag = "Ok"
  /\ StatusValue(result["status"]).status = "disabled"
  /\ result["preferences"].tag = "Err"
  /\ lastApplied["preferences"] = [layout |-> "traditional", language |-> "de"]
  /\ PreferencesValue(result["preferences"]).settings = DefaultSettings

\* C8: in every resource state, Initial included, invoking the published
\* refresh issues a new fetch of that provider's value.
C8_RefreshAlwaysFetches ==
  [][\A p \in Providers :
       (lastCall' = p /\ phase[p] = "live" /\ generation[p] < MaxFetches) =>
         /\ generation'[p] = generation[p] + 1
         /\ generation'[p] \in fetches'[p]]_vars

\* C9: a resource never applies the result of a fetch whose token is older
\* than its current generation: every step that changes the resource state
\* or the applied value settles the fetch carrying the current token.
C9_NoStaleApply ==
  [][\A p \in Providers :
       (result'[p] # result[p] \/ lastApplied'[p] # lastApplied[p]) =>
         /\ phase[p] = "live"
         /\ generation[p] \in fetches[p]
         /\ fetches'[p] = fetches[p] \ {generation[p]}
         /\ generation'[p] = generation[p]]_vars

\* C9 witness: a newer fetch has been applied while a superseded fetch is
\* still to settle.
C9_Witness ==
  \E p \in Providers :
    /\ phase[p] = "live"
    /\ result[p].tag = "Ok"
    /\ generation[p] \notin fetches[p]
    /\ \E g \in fetches[p] : g < generation[p]

\* C10 as stated: at most one fetch of the polling resource is in flight.
C10_AtMostOneFetch == Cardinality(fetches["status"]) <= 1

\* C10 as amended: a poll timer is pending only when the current fetch has
\* settled, so a poll tick never overlaps the fetch it follows; any other
\* fetch in flight is one that a refresh superseded.
C10_PollAfterSettle ==
  /\ timer["status"] => generation["status"] \notin fetches["status"]
  /\ ~timer["preferences"]
  /\ \A g \in fetches["status"] : g <= generation["status"]

\* C10 witness: the poll timer is pending after the current fetch settled,
\* with a superseded fetch still in flight.
C10_Witness ==
  /\ timer["status"]
  /\ fetches["status"] # {}

\* C11: after teardown the resource makes no transition and presents
\* nothing: a fetch issued before teardown that settles afterwards changes
\* neither the state nor the applied value and sets no timer, no timer is
\* left pending, and no fetch is issued.
C11_NothingAfterTeardown ==
  /\ [](\A p \in Providers : phase[p] = "down" => ~timer[p])
  /\ [][\A p \in Providers :
          phase[p] = "down" =>
            /\ phase'[p] = "down"
            /\ result'[p] = result[p]
            /\ lastApplied'[p] = lastApplied[p]
            /\ generation'[p] = generation[p]
            /\ fetches'[p] \subseteq fetches[p]
            /\ ~timer'[p]]_vars

\* C11 witness: the polling resource was torn down while its first fetch
\* was in flight, and that fetch has settled since: the state is still
\* Initial.
C11_Witness ==
  /\ phase["status"] = "down"
  /\ generation["status"] = 2
  /\ fetches["status"] = {}
  /\ result["status"].tag = "Initial"

\* A step in which a consumer's call reaches the resource's own refresh.
RefreshStep(p) ==
  /\ lastCall' = p
  /\ phase[p] = "live"
  /\ PublishedRefresh(p) = "loadData"
  /\ generation[p] < MaxFetches

C12_TimerCase ==
  /\ lastCall = "status"
  /\ result["status"].tag = "Err"
  /\ fetches["status"] = {generation["status"]}
  /\ ~timer["status"]

\* A step in which the form is submitted.
SubmitStep == submits' = submits + 1

\* C13: every submission, in the step that issues the request and before
\* the request settles, empties the password draft and clears the error
\* flag, whatever the flag was.
C13_ClearOnSubmit ==
  [][SubmitStep =>
       /\ password' = ""
       /\ error' = FALSE
       /\ \E r \in requests' \ requests : r.id = submits']_vars

\* C13 witness: the first submission was rejected and showed the error; the
\* second submission cleared it and is still in flight.
C13_Witness ==
  /\ mounted
  /\ submits = 2
  /\ Cardinality(requests) = 1
  /\ \A r \in requests : r.id = 2
  /\ ~error
  /\ password = ""

\* C14: while the probe is outstanding the page takes password input and
\* submits in Local mode; the mode flag is LDAP exactly when the probe has
\* reported "ldap", and every submission uses the mode detected so far.
C14_OptimisticLocalThenDetected ==
  /\ [](mounted =>
          /\ ldapAuth <=> probeReport[inst] = "ldap"
          /\ probeReport[inst] = "pending" =>
               /\ inst \in probes
               /\ ENABLED HandlePasswordChange("secret")
               /\ CanSubmit)
  /\ [][SubmitStep =>
          \A r \in requests' \ requests :
            r.call = IF probeReport[inst] = "ldap"
                       THEN "authenticateLdap" ELSE "authenticate"]_vars

\* C14 witness: the first submission went out in Local mode while the probe
\* was outstanding, the probe then reported "ldap", and the second
\* submission went out in LDAP mode.
C14_Witness ==
  /\ mounted
  /\ probeReport[inst] = "ldap"
  /\ \E r \in requests : r.id = 1 /\ r.call = "authenticate"
  /\ \E r \in requests : r.id = 2 /\ r.call = "authenticateLdap"

\* C15: a failed probe leaves the page in Local mode with the form open:
\* the failure changes nothing of the page state, error included, and
\* afterwards the mode flag is false and input and submission are accepted.
C15_ProbeFailureKeepsLocal ==
  /\ []((mounted /\ probeReport[inst] = "failed") =>
          /\ ~ldapAuth
          /\ ENABLED HandlePasswordChange("secret")
          /\ CanSubmit)
  /\ [][\A i \in Instances :
          (probeReport[i] = "pending" /\ probeReport'[i] = "failed") =>
            /\ error' = error
            /\ ldapAuth' = ldapAuth
            /\ mounted' = mounted
            /\ password' = password
            /\ username' = username
            /\ requests' = requests
            /\ loggedIn' = loggedIn]_vars

\* C15 witness: the probe failed, and a Local submission is in flight with
\* a new draft typed.
C15_Witness ==
  /\ mounted
  /\ probeReport[inst] = "failed"
  /\ ~error
  /\ password = "hunter2"
  /\ \E r \in requests : r.call = "authenticate"

\* A step in which a keystroke changes a draft.
KeystrokeStep ==
  /\ inst' = inst
  /\ submits' = submits
  /\ password' # password \/ username' # username

\* C16: a keystroke changes one draft and nothing else: no probe and no
\* request is issued, and error, mode, cookie flag and api.loggedIn keep
\* their values.
C16_KeystrokeIsLocal ==
  [][KeystrokeStep =>
       /\ password' = password \/ username' = username
       /\ probes' = probes
       /\ probeReport' = probeReport
       /\ requests' = requests
       /\ redirects' = redirects
       /\ error' = error
       /\ ldapAuth' = ldapAuth
       /\ cookiesEnabled' = cookiesEnabled
       /\ loggedIn' = loggedIn
       /\ mounted' = mounted]_vars

\* C16 witness: both drafts were typed in LDAP mode while the error was
\* shown and a request was in flight.
C16_Witness ==
  /\ mounted
  /\ ldapAuth
  /\ error
  /\ username = "admin"
  /\ password = "secret"
  /\ requests # {}

\* C17 relates two runs of the page that differ in the cookie signal only.
\* It is a property of pairs of behaviours and has no formula here. What
\* one behaviour shows is in the actions above: cookiesEnabled is assigned
\* by Mount and appears in no guard and in no other assignment.

\* A step in which the current fetch of p settles.
CurrentSettleStep(p) ==
  /\ phase[p] = "live"
  /\ generation'[p] = generation[p]
  /\ generation[p] \in fetches[p]
  /\ generation[p] \notin fetches'[p]

\* C18: a failed fetch is retried by polling or by refresh only.
\* Preferences never sets a timer and issues a fetch only at creation and
\* on refresh; once failed with nothing in flight it stays Err, publishing
\* the default. Status sets its timer when its fetch fails, the timer
\* leads to a new fetch, and a fetch that then resolves is published.
C18_RetryByPollOrRefresh ==
  /\ [](~timer["preferences"])
  /\ [](result["preferences"].tag = "Err" =>
          PreferencesValue(result["preferences"]).settings = DefaultSettings)
  /\ [][generation'["preferences"] # generation["preferences"] =>
          \/ phase["preferences"] = "new"
          \/ phase'["preferences"] = "down"
          \/ lastCall' = "preferences"]_vars
  /\ [][(/\ result["preferences"].tag = "Err"
         /\ generation["preferences"] \notin fetches["preferences"]) =>
          result'["preferences"] = result["preferences"]]_vars
  /\ [][CurrentSettleStep("status") =>
          /\ timer'["status"]
          /\ result'["status"].tag = "Ok" =>
               /\ lastApplied'["status"] \in StatusData
               /\ StatusValue(result'["status"]).status =
                    lastApplied'["status"].status]_vars
  /\ (/\ phase["status"] = "live"
      /\ result["status"].tag = "Err"
      /\ timer["status"]
      /\ generation["status"] < MaxFetches)
       ~> (\/ generation["status"] \in fetches["status"]
           \/ phase["status"] = "down")

\* C18 witness: both first fetches failed; Status has its retry scheduled,
\* Preferences has nothing scheduled and nothing in flight.
C18_Witness ==
  /\ phase["status"] = "live"
  /\ result["status"].tag = "Err"
  /\ timer["status"]
  /\ phase["preferences"] = "live"
  /\ result["preferences"].tag = "Err"
  /\ generation["preferences"] = 1
  /\ fetches["preferences"] = {}

\* C18, the retry: Status failed first and publishes the status fetched by
\* the poll that followed.
C18_RetrySucceeded ==
  /\ result["status"].tag = "Ok"
  /\ StatusValue(result["status"]).status = "enabled"
  /\ generation["status"] = 2
  /\ fetches["status"] = {}
  /\ lastCall = "none"

\* C19: whenever api.loggedIn is true the error flag is false.
C19_NoErrorWhenLoggedIn == loggedIn => ~error

\* C20: if every request settles, every submission is followed by a state
\* in which its request has settled and api.loggedIn or the error flag is
\* true: the page does not stay in Submitting with neither outcome.
C20_EverySubmissionHasOutcome ==
  \A k \in 1..MaxSubmits :
    (\E r \in requests : r.id = k)
      ~> (/\ submits >= k
          /\ \A r \in requests : r.id # k
          /\ loggedIn \/ error)

\* C20 witness: the only submission has settled by rejection and the error
\* is shown.
C20_Witness ==
  /\ submits = 1
  /\ requests = {}
  /\ mounted
  /\ error
  /\ ~loggedIn
  /\ password = ""

====
